---- MODULE Spec2Model ----
(***************************************************************************)
(* A model of generate_rainfall_map.py: the rainfall classifier            *)
(* (get_color, get_category), the measurement aggregation, the geometry    *)
(* district-column discovery, the left join of geometry to aggregated      *)
(* rainfall (process_data) and the two renderers run by __main__.          *)
(*                                                                         *)
(* Text is modelled as a sequence of one-character strings, so that        *)
(* str.strip, str.upper and str.lower are computed character by character. *)
(* Rainfall is an integer number of tenths of a millimetre (the program    *)
(* rounds every aggregated value to one decimal); the arithmetic is exact  *)
(* decimal arithmetic, not IEEE doubles.                                   *)
(***************************************************************************)
EXTENDS Integers, Sequences, FiniteSets, TLC

VARIABLES
    pc,               \* position of the run
    rainfall_file,    \* content of RAINFALL_FILE (or a load error)
    geojson_file,     \* content of GEOJSON_FILE (or a load error)
    goa_file,         \* content of GOA_FILE (absent, a load error, or content)
    df,               \* the measurement frame after normalisation and the MUMBAI copy
    rain_agg,         \* the aggregated frame, one row per DISTRICT, sorted by DISTRICT
    gdf,              \* the combined geometry frame with DISTRICT_NORM
    unmatched_json,   \* json_districts - geojson_districts
    missing_data_map, \* geojson_districts - json_districts
    merged,           \* the merged frame process_data returns (or None)
    merged_columns,   \* the column names of merged
    dist_col,         \* the district column process_data returns (or None)
    log,              \* the kinds of message printed so far
    artifacts,        \* the output files written so far
    invoked,          \* the renderers called so far, in order
    value,            \* input of the classifier
    color,            \* get_color(value)
    category,         \* get_category(value)
    geo_columns,      \* input of find_district_col: the columns of a geometry frame
    found             \* find_district_col(geo_columns)

vars == <<pc, rainfall_file, geojson_file, goa_file, df, rain_agg, gdf,
          unmatched_json, missing_data_map, merged, merged_columns, dist_col,
          log, artifacts, invoked, value, color, category, geo_columns, found>>

(***************************************************************************)
(* Bounds of the model.                                                    *)
(***************************************************************************)
MaxValue == 2050
MaxRows == 3
MaxFeatures == 2
MaxCols == 3

(***************************************************************************)
(* Python's None and pandas' NaN.                                          *)
(***************************************************************************)
None == <<>>
NaN == -1

(***************************************************************************)
(* Characters and text.                                                    *)
(***************************************************************************)
LowerLetters == <<"a","b","c","d","e","f","g","h","i","j","k","l","m",
                  "n","o","p","q","r","s","t","u","v","w","x","y","z">>
UpperLetters == <<"A","B","C","D","E","F","G","H","I","J","K","L","M",
                  "N","O","P","Q","R","S","T","U","V","W","X","Y","Z">>
Digits == <<"0","1","2","3","4","5","6","7","8","9">>
\* The characters of the model in code-point order (space < . < / < digits <
\* upper case < _ < lower case), which is the order groupby sorts keys by.
CodeOrder == <<" ", ".", "/">> \o Digits \o UpperLetters \o <<"_">> \o LowerLetters
Whitespace == {" "}

IndexOf(c, seq) == CHOOSE i \in 1..Len(seq) : seq[i] = c
IsIn(c, seq) == \E i \in 1..Len(seq) : seq[i] = c

UpperChar(c) == IF IsIn(c, LowerLetters) THEN UpperLetters[IndexOf(c, LowerLetters)] ELSE c
LowerChar(c) == IF IsIn(c, UpperLetters) THEN LowerLetters[IndexOf(c, UpperLetters)] ELSE c

str_upper(s) == [i \in 1..Len(s) |-> UpperChar(s[i])]
str_lower(s) == [i \in 1..Len(s) |-> LowerChar(s[i])]

RECURSIVE lstrip(_)
lstrip(s) == IF s # <<>> /\ Head(s) \in Whitespace THEN lstrip(Tail(s)) ELSE s
RECURSIVE rstrip(_)
rstrip(s) == IF s # <<>> /\ s[Len(s)] \in Whitespace
             THEN rstrip(SubSeq(s, 1, Len(s) - 1)) ELSE s
str_strip(s) == rstrip(lstrip(s))

\* a < b in code-point (lexicographic) order
RECURSIVE LexLess(_, _)
LexLess(a, b) ==
    IF b = <<>> THEN FALSE
    ELSE IF a = <<>> THEN TRUE
    ELSE IF Head(a) = Head(b) THEN LexLess(Tail(a), Tail(b))
    ELSE IndexOf(Head(a), CodeOrder) < IndexOf(Head(b), CodeOrder)

\* the elements of a finite set of texts in ascending order
RECURSIVE sorted(_)
sorted(S) ==
    IF S = {} THEN <<>>
    ELSE LET m == CHOOSE x \in S : \A y \in S \ {x} : LexLess(x, y)
         IN  <<m>> \o sorted(S \ {m})

Range(seq) == {seq[i] : i \in 1..Len(seq)}

\* all sequences over S of length lo..hi
SeqsOf(S, lo, hi) == UNION {[1..n -> S] : n \in lo..hi}

(***************************************************************************)
(* District names and column names of the program.                         *)
(***************************************************************************)
s_AHILYANAGAR == <<"A", "H", "I", "L", "Y", "A", "N", "A", "G", "A", "R">>
s_AHMADNAGAR == <<"A", "H", "M", "A", "D", "N", "A", "G", "A", "R">>
s_CHHATRAPATI_SAMBHAJI_NAGAR == <<"C", "H", "H", "A", "T", "R", "A", "P", "A", "T", "I", " ", "S", "A", "M", "B", "H", "A", "J", "I", " ", "N", "A", "G", "A", "R">>
s_CHATRAPATI_SAMBHAJI_NAGAR == <<"C", "H", "A", "T", "R", "A", "P", "A", "T", "I", " ", "S", "A", "M", "B", "H", "A", "J", "I", " ", "N", "A", "G", "A", "R">>
s_AURANGABAD == <<"A", "U", "R", "A", "N", "G", "A", "B", "A", "D">>
s_DHARASHIV == <<"D", "H", "A", "R", "A", "S", "H", "I", "V">>
s_OSMANABAD == <<"O", "S", "M", "A", "N", "A", "B", "A", "D">>
s_RAIGAD == <<"R", "A", "I", "G", "A", "D">>
s_RAIGARH == <<"R", "A", "I", "G", "A", "R", "H">>
s_SHOLAPUR == <<"S", "H", "O", "L", "A", "P", "U", "R">>
s_SOLAPUR == <<"S", "O", "L", "A", "P", "U", "R">>
s_BEED == <<"B", "E", "E", "D">>
s_BID == <<"B", "I", "D">>
s_MUMBAI == <<"M", "U", "M", "B", "A", "I">>
s_MUMBAI_SUBURBAN == <<"M", "U", "M", "B", "A", "I", " ", "S", "U", "B", "U", "R", "B", "A", "N">>
s_NORTH_GOA == <<"N", "O", "R", "T", "H", " ", "G", "O", "A">>
s_GOA == <<"G", "O", "A">>

c_dtname == <<"d", "t", "n", "a", "m", "e">>
c_district == <<"d", "i", "s", "t", "r", "i", "c", "t">>
c_DISTRICT == <<"D", "I", "S", "T", "R", "I", "C", "T">>
c_NAME_2 == <<"N", "A", "M", "E", "_", "2">>
c_Dist_Name == <<"D", "i", "s", "t", "_", "N", "a", "m", "e">>
c_Name == <<"N", "a", "m", "e">>
c_objectid == <<"o", "b", "j", "e", "c", "t", "i", "d">>
c_censuscode == <<"c", "e", "n", "s", "u", "s", "c", "o", "d", "e">>
c_DISTRICT_NORM == <<"D", "I", "S", "T", "R", "I", "C", "T", "_", "N", "O", "R", "M">>
c_RAINFALL_MM == <<"R", "A", "I", "N", "F", "A", "L", "L", "_", "M", "M">>
c_CATEGORY == <<"C", "A", "T", "E", "G", "O", "R", "Y">>
c_COLOR == <<"C", "O", "L", "O", "R">>
c_RAINFALL_DISPLAY == <<"R", "A", "I", "N", "F", "A", "L", "L", "_", "D", "I", "S", "P", "L", "A", "Y">>
suffix_x == <<"_", "x">>
suffix_y == <<"_", "y">>
c_RF == <<"R", "/", "F">>

(***************************************************************************)
(* Texts used as inputs: raw labels, column names, rainfall fields, ids.   *)
(***************************************************************************)
in_Mumbai == <<"M", "u", "m", "b", "a", "i">>
in_Mumbai_Suburban_pad == <<" ", "M", "u", "m", "b", "a", "i", " ", "S", "u", "b", "u", "r", "b", "a", "n">>
in_Ahilyanagar_pad == <<" ", "A", "h", "i", "l", "y", "a", "n", "a", "g", "a", "r", " ">>
in_ahmadnagar == <<"a", "h", "m", "a", "d", "n", "a", "g", "a", "r">>
in_Pune == <<"P", "u", "n", "e">>
in_XYZ == <<"X", "Y", "Z">>
in_Goa == <<"G", "o", "a">>
in_North_Goa == <<"N", "o", "r", "t", "h", " ", "G", "o", "a">>
in_South_Goa == <<"S", "o", "u", "t", "h", " ", "G", "o", "a">>
in_DTNAME == <<"D", "T", "N", "A", "M", "E">>
in_area == <<"a", "r", "e", "a">>
in_name_2 == <<"n", "a", "m", "e", "_", "2">>

rf_12_3 == <<"1", "2", ".", "3">>
rf_70 == <<"7", "0">>
rf_NA == <<"N", "/", "A">>
rf_0 == <<"0">>
rf_115_5 == <<"1", "1", "5", ".", "5">>
rf_250 == <<"2", "5", "0">>

id_1 == <<"1">>
id_2 == <<"2">>
id_3 == <<"3">>
id_4 == <<"4">>

(***************************************************************************)
(* The classifier (tenths of a millimetre).                                *)
(***************************************************************************)
get_color_le(v) ==
    IF v = 0 THEN "#D3D3D3"
    ELSE IF 0 < v /\ v < 645 THEN "#FFFFE0"
    ELSE IF 645 <= v /\ v < 1155 THEN "#FFA500"
    ELSE IF 1155 <= v /\ v <= 2044 THEN "#FF0000"
    ELSE IF v > 2044 THEN "#8B0000"
    ELSE "#D3D3D3"

get_color(v) ==
    IF v = 0 THEN "#D3D3D3"
    ELSE IF 0 < v /\ v < 645 THEN "#FFFFE0"
    ELSE IF 645 <= v /\ v <= 1155 THEN "#FFA500"
    ELSE IF 1155 < v /\ v <= 2044 THEN "#FF0000"
    ELSE IF v > 2044 THEN "#8B0000"
    ELSE "#D3D3D3"

get_category(v) ==
    IF v = 0 THEN "No Rainfall"
    ELSE IF 0 < v /\ v < 645 THEN "Moderate Rainfall"
    ELSE IF 645 <= v /\ v <= 1155 THEN "Heavy Rainfall"
    ELSE IF 1155 < v /\ v <= 2044 THEN "Very Heavy Rainfall"
    ELSE IF v > 2044 THEN "Extremely Heavy Rainfall"
    ELSE "No Data"

(***************************************************************************)
(* District-column discovery.  A column is [name, dtype]; a column is      *)
(* textual when its dtype is "object".                                     *)
(***************************************************************************)
potential_cols == <<c_dtname, c_district, c_DISTRICT, c_NAME_2, c_Dist_Name,
                    c_Name, c_objectid, c_censuscode>>

is_string_or_object_dtype(col) == col.dtype = "object"

name_matches(col) ==
    str_lower(col.name) \in {str_lower(p) : p \in Range(potential_cols)}

\* the candidate of highest priority that some textual column matches
find_district_col_by_priority(columns) ==
    LET ok(p) == \E i \in 1..Len(columns) :
                    /\ str_lower(columns[i].name) = str_lower(potential_cols[p])
                    /\ is_string_or_object_dtype(columns[i])
        ps == {p \in 1..Len(potential_cols) : ok(p)}
    IN  IF ps = {} THEN None
        ELSE LET p == CHOOSE q \in ps : \A r \in ps : q <= r
                 i == CHOOSE j \in 1..Len(columns) :
                        /\ str_lower(columns[j].name) = str_lower(potential_cols[p])
                        /\ is_string_or_object_dtype(columns[j])
                        /\ \A k \in 1..(j - 1) :
                              ~(/\ str_lower(columns[k].name) = str_lower(potential_cols[p])
                                /\ is_string_or_object_dtype(columns[k]))
             IN  columns[i].name

RECURSIVE find_district_col(_)
find_district_col(columns) ==
    IF columns = <<>> THEN None
    ELSE IF name_matches(Head(columns)) /\ is_string_or_object_dtype(Head(columns))
         THEN Head(columns).name
         ELSE find_district_col(Tail(columns))

(***************************************************************************)
(* Reading a rainfall field.  A field is a text of digits with at most one *)
(* "." (the inputs carry at most one fractional digit); anything else is   *)
(* not a number and is coerced to NaN.  The result is in tenths.           *)
(***************************************************************************)
RECURSIVE digits_value(_)
digits_value(s) ==
    IF s = <<>> THEN 0
    ELSE 10 * digits_value(SubSeq(s, 1, Len(s) - 1)) + (IndexOf(s[Len(s)], Digits) - 1)

to_numeric(s) ==
    LET dots == {i \in 1..Len(s) : s[i] = "."}
        wellformed == /\ s # <<>>
                      /\ \A i \in 1..Len(s) : IsIn(s[i], Digits) \/ s[i] = "."
                      /\ Cardinality(dots) <= 1
                      /\ \E i \in 1..Len(s) : IsIn(s[i], Digits)
    IN  IF ~wellformed THEN NaN
        ELSE IF dots = {} THEN 10 * digits_value(s)
        ELSE LET d == CHOOSE i \in dots : TRUE
                 whole == SubSeq(s, 1, d - 1)
                 frac == SubSeq(s, d + 1, Len(s))
             IN  10 * digits_value(whole)
                   + (IF frac = <<>> THEN 0 ELSE IndexOf(frac[1], Digits) - 1)

fillna(v, fill) == IF v = NaN THEN fill ELSE v

(***************************************************************************)
(* Normalisation of district names.                                        *)
(***************************************************************************)
\* a plausible slip: an alias left out of the table
name_mapping_without_AHILYANAGAR ==
    (s_BEED :> s_BID) @@
    (s_CHHATRAPATI_SAMBHAJI_NAGAR :> s_AURANGABAD) @@
    (s_CHATRAPATI_SAMBHAJI_NAGAR :> s_AURANGABAD) @@
    (s_DHARASHIV :> s_OSMANABAD) @@
    (s_RAIGAD :> s_RAIGARH) @@
    (s_SHOLAPUR :> s_SOLAPUR)

name_mapping ==
    (s_AHILYANAGAR :> s_AHMADNAGAR) @@
    (s_CHHATRAPATI_SAMBHAJI_NAGAR :> s_AURANGABAD) @@
    (s_CHATRAPATI_SAMBHAJI_NAGAR :> s_AURANGABAD) @@
    (s_DHARASHIV :> s_OSMANABAD) @@
    (s_RAIGAD :> s_RAIGARH) @@
    (s_SHOLAPUR :> s_SOLAPUR) @@
    (s_BEED :> s_BID)

goa_mapping == (s_NORTH_GOA :> s_GOA)

replace(v, mapping) == IF v \in DOMAIN mapping THEN mapping[v] ELSE v

\* .astype(str).str.strip().str.upper()
strip_upper(label) == str_upper(str_strip(label))

(***************************************************************************)
(* The measurement frame: pd.DataFrame(data), R/F made numeric, DISTRICT   *)
(* normalised and alias-resolved.  A record of data is a function from its *)
(* keys to texts; the frame's columns are the keys of the records.         *)
(***************************************************************************)
frame_columns(data) == UNION {DOMAIN data[i] : i \in 1..Len(data)}

\* a plausible slip: the unparseable field stays NaN (no fillna)
numeric_rf_dropna(field) == to_numeric(field)

numeric_rf(field) == fillna(to_numeric(field), 0)

normalize_rainfall(data) ==
    [i \in 1..Len(data) |->
        [DISTRICT |-> replace(strip_upper(data[i][c_DISTRICT]), name_mapping),
         RF       |-> numeric_rf(data[i][c_RF])]]

\* SPECIAL HANDLING FOR MUMBAI: the MUMBAI rows are appended again as
\* MUMBAI SUBURBAN rows
mumbai_handling(frame) ==
    LET is_mumbai(r) == r.DISTRICT = s_MUMBAI
        mumbai_row == SelectSeq(frame, is_mumbai)
    IN  IF mumbai_row # <<>>
        THEN frame \o [i \in 1..Len(mumbai_row) |->
                          [mumbai_row[i] EXCEPT !.DISTRICT = s_MUMBAI_SUBURBAN]]
        ELSE frame

RECURSIVE sum_rf(_)
sum_rf(rows) == IF rows = <<>> THEN 0 ELSE Head(rows).RF + sum_rf(Tail(rows))

\* sum / count rounded to a whole number of tenths, a tie going to the even
\* neighbour (numpy's round)
round1(total, count) ==
    LET q == total \div count
        r == total % count
    IN  IF 2 * r < count THEN q
        ELSE IF 2 * r > count THEN q + 1
        ELSE IF q % 2 = 0 THEN q ELSE q + 1

\* mean() skips NaN; a group with no number left is NaN
group_mean(rows) ==
    LET is_number(r) == r.RF # NaN
        numbers == SelectSeq(rows, is_number)
    IN  IF numbers = <<>> THEN NaN ELSE round1(sum_rf(numbers), Len(numbers))

\* a plausible slip: the first row of each group instead of the mean
groupby_first(frame) ==
    LET keys == sorted({frame[i].DISTRICT : i \in 1..Len(frame)})
    IN  [k \in 1..Len(keys) |->
            LET in_group(r) == r.DISTRICT = keys[k]
            IN  [DISTRICT |-> keys[k],
                 RAINFALL_MM |-> Head(SelectSeq(frame, in_group)).RF]]

\* a plausible slip: no grouping, one output row per input row
groupby_none(frame) ==
    [i \in 1..Len(frame) |-> [DISTRICT |-> frame[i].DISTRICT, RAINFALL_MM |-> frame[i].RF]]

\* df.groupby('DISTRICT')['R/F'].mean().reset_index(), renamed and rounded
groupby_mean(frame) ==
    LET keys == sorted({frame[i].DISTRICT : i \in 1..Len(frame)})
    IN  [k \in 1..Len(keys) |->
            LET in_group(r) == r.DISTRICT = keys[k]
            IN  [DISTRICT |-> keys[k],
                 RAINFALL_MM |-> group_mean(SelectSeq(frame, in_group))]]

\* the frame that is aggregated, and the aggregate
rainfall_frame(data) == mumbai_handling(normalize_rainfall(data))

aggregate(data) == groupby_mean(rainfall_frame(data))

(***************************************************************************)
(* The geometry frames.  A geometry source is [load |-> "error"],          *)
(* [load |-> "absent"] (GOA_FILE only) or                                   *)
(* [load |-> "ok", columns, features], features[i][j] being the value of   *)
(* feature i in column j.                                                  *)
(***************************************************************************)
column_names(frame) == {frame.columns[j].name : j \in 1..Len(frame.columns)}

column_value(frame, i, col) ==
    frame.features[i][CHOOSE j \in 1..Len(frame.columns) : frame.columns[j].name = col]

\* gdf['DISTRICT_NORM'] = gdf[dist_col].astype(str).str.strip().str.upper()
normalize_geo(frame, col, source) ==
    [i \in 1..Len(frame.features) |->
        [source        |-> source,
         attrs         |-> frame.features[i],
         native        |-> column_value(frame, i, col),
         DISTRICT_NORM |-> strip_upper(column_value(frame, i, col))]]

\* the load of GOA_FILE: a frame, or None
NoFrame == [load |-> "none"]

read_goa(goa) == IF goa.load = "ok" THEN goa ELSE NoFrame

read_goa_log(goa) ==
    IF goa.load = "absent" THEN <<"Warning: GOA_FILE not found. Goa will not be displayed.">>
    ELSE IF goa.load = "error" THEN <<"Loading GOA_FILE", "Error loading GOA_FILE">>
    ELSE <<"Loading GOA_FILE">>

\* a plausible slip: the Goa rows are concatenated even when no district
\* column was found in them
process_goa_always(main_rows, goa_gdf) ==
    IF goa_gdf # NoFrame
    THEN LET goa_dist_col == find_district_col(goa_gdf.columns)
         IN  IF goa_dist_col # None
             THEN LET rows == normalize_geo(goa_gdf, goa_dist_col, "GOA_FILE")
                  IN  main_rows \o
                      [i \in 1..Len(rows) |->
                         [rows[i] EXCEPT !.DISTRICT_NORM = replace(@, goa_mapping)]]
             ELSE main_rows \o
                  [i \in 1..Len(goa_gdf.features) |->
                     [source |-> "GOA_FILE", attrs |-> goa_gdf.features[i],
                      native |-> None, DISTRICT_NORM |-> None]]
    ELSE main_rows

\* Process and Merge Goa: the rows of the combined frame
process_goa(main_rows, goa_gdf) ==
    IF goa_gdf # NoFrame
    THEN LET goa_dist_col == find_district_col(goa_gdf.columns)
         IN  IF goa_dist_col # None
             THEN LET rows == normalize_geo(goa_gdf, goa_dist_col, "GOA_FILE")
                  IN  main_rows \o
                      [i \in 1..Len(rows) |->
                         [rows[i] EXCEPT !.DISTRICT_NORM = replace(@, goa_mapping)]]
             ELSE main_rows
    ELSE main_rows

process_goa_columns(main_columns, goa_gdf) ==
    IF goa_gdf # NoFrame /\ find_district_col(goa_gdf.columns) # None
    THEN main_columns \cup column_names(goa_gdf)
    ELSE main_columns

process_goa_log(goa_gdf) ==
    IF goa_gdf = NoFrame THEN <<>>
    ELSE IF find_district_col(goa_gdf.columns) # None
         THEN <<"Using GeoJSON column for district names in Goa.", "Added districts from Goa.">>
         ELSE <<"Error: Could not identify District Name column in Goa GeoJSON.">>

(***************************************************************************)
(* The merge.                                                              *)
(***************************************************************************)
RECURSIVE flatten(_)
flatten(seqs) == IF seqs = <<>> THEN <<>> ELSE Head(seqs) \o flatten(Tail(seqs))

joined(l, r) ==
    [source |-> l.source, attrs |-> l.attrs, native |-> l.native,
     DISTRICT_NORM |-> l.DISTRICT_NORM,
     DISTRICT |-> r.DISTRICT, RAINFALL_MM |-> r.RAINFALL_MM]

\* a plausible slip: how='inner'
merge_inner(left, right) ==
    flatten([i \in 1..Len(left) |->
        LET matches(r) == r.DISTRICT = left[i].DISTRICT_NORM
            ms == SelectSeq(right, matches)
        IN  [k \in 1..Len(ms) |-> joined(left[i], ms[k])]])

\* gdf.merge(rain_agg, left_on='DISTRICT_NORM', right_on='DISTRICT', how='left')
merge_left(left, right) ==
    flatten([i \in 1..Len(left) |->
        LET matches(r) == r.DISTRICT = left[i].DISTRICT_NORM
            ms == SelectSeq(right, matches)
        IN  IF ms = <<>>
            THEN <<joined(left[i], [DISTRICT |-> None, RAINFALL_MM |-> NaN])>>
            ELSE [k \in 1..Len(ms) |-> joined(left[i], ms[k])]])

\* the columns of the merge: a name in both frames gets the suffixes _x, _y
merge_columns(left_columns, right_columns) ==
    LET both == left_columns \cap right_columns
    IN  ((left_columns \cup right_columns) \ both)
          \cup {c \o suffix_x : c \in both} \cup {c \o suffix_y : c \in both}

\* fillna(0), CATEGORY, COLOR, RAINFALL_DISPLAY
assemble(rows) ==
    [i \in 1..Len(rows) |->
        LET v == fillna(rows[i].RAINFALL_MM, 0)
        IN  [source |-> rows[i].source, attrs |-> rows[i].attrs,
             native |-> rows[i].native,
             DISTRICT_NORM |-> rows[i].DISTRICT_NORM,
             DISTRICT |-> rows[i].DISTRICT,
             RAINFALL_MM |-> v,
             CATEGORY |-> get_category(v),
             COLOR |-> get_color(v),
             RAINFALL_DISPLAY |-> <<v, " mm">>]]

(***************************************************************************)
(* process_data: what it returns and leaves behind.                        *)
(***************************************************************************)
blank ==
    [pc |-> "returned_none", df |-> <<>>, rain_agg |-> <<>>, gdf |-> <<>>,
     unmatched_json |-> {}, missing_data_map |-> {}, merged |-> None,
     merged_columns |-> {}, dist_col |-> None, log |-> <<>>]

process_data(rainfall, geojson, goa) ==
    LET step1 == <<"Step 1: Processing Rainfall Data...">>
    IN
    IF rainfall.load = "error"
    THEN [blank EXCEPT !.log = step1 \o <<"Error loading RAINFALL_FILE">>]
    ELSE IF c_RF \notin frame_columns(rainfall.data)
    THEN [blank EXCEPT !.log = step1 \o <<"Error: 'R/F' column not found in rainfall data.">>]
    ELSE IF c_DISTRICT \notin frame_columns(rainfall.data)
    THEN \* df['DISTRICT'] raises KeyError, which nothing catches
         [blank EXCEPT !.pc = "raised_in_process_data", !.log = step1]
    ELSE
    LET frame == rainfall_frame(rainfall.data)
        agg == groupby_mean(frame)
        log1 == step1
                \o (IF Len(frame) > Len(rainfall.data)
                    THEN <<"Info: Duplicated 'MUMBAI' data to 'MUMBAI SUBURBAN' for map coverage.">>
                    ELSE <<>>)
                \o <<"Loaded districts from rainfall data.", "Step 2: Processing GeoJSON Data...">>
        done1 == [blank EXCEPT !.df = frame, !.rain_agg = agg]
    IN
    IF geojson.load = "error"
    THEN [done1 EXCEPT !.log = log1 \o <<"Error loading GEOJSON_FILE">>]
    ELSE
    LET goa_gdf == read_goa(goa)
        log2 == log1 \o read_goa_log(goa)
        main_col == find_district_col(geojson.columns)
    IN
    IF main_col = None
    THEN [done1 EXCEPT !.log = log2 \o
             <<"Error: Could not identify District Name column in Main GeoJSON.">>]
    ELSE
    LET main_rows == normalize_geo(geojson, main_col, "GEOJSON_FILE")
        rows == process_goa(main_rows, goa_gdf)
        columns == process_goa_columns(column_names(geojson), goa_gdf)
                     \cup {c_DISTRICT_NORM}
        json_districts == {agg[i].DISTRICT : i \in 1..Len(agg)}
        geojson_districts == {rows[i].DISTRICT_NORM : i \in 1..Len(rows)}
        uj == json_districts \ geojson_districts
        mdm == geojson_districts \ json_districts
        log3 == log2 \o <<"Using GeoJSON column for district names in Maharashtra.">>
                \o process_goa_log(goa_gdf)
                \o <<"--- Matching Report ---">>
                \o (IF uj # {} THEN <<"Districts in JSON but NOT in GeoJSON">>
                    ELSE <<"All JSON districts matched with GeoJSON.">>)
                \o (IF mdm # {} THEN <<"Districts in GeoJSON with no data in JSON">> ELSE <<>>)
                \o <<"Step 3: Merging Data...", "Merged entries">>
    IN  [pc |-> "returned_merged",
         df |-> frame,
         rain_agg |-> agg,
         gdf |-> rows,
         unmatched_json |-> uj,
         missing_data_map |-> mdm,
         merged |-> assemble(merge_left(rows, agg)),
         merged_columns |-> merge_columns(columns, {c_DISTRICT, c_RAINFALL_MM})
                              \cup {c_CATEGORY, c_COLOR, c_RAINFALL_DISPLAY},
         dist_col |-> main_col,
         log |-> log3]

(***************************************************************************)
(* The run: __main__ calls process_data and, unless it returned None,      *)
(* create_static_map and then create_interactive_map.                      *)
(***************************************************************************)
OUTPUT_PNG == "June_2025_rainfall_map.png"
OUTPUT_SVG == "June_2025_rainfall_map.svg"
OUTPUT_HTML == "June_2025_rainfall_map.html"

ProcessData ==
    /\ pc = "start"
    /\ \E r \in {process_data(rainfall_file, geojson_file, goa_file)} :
           /\ pc' = r.pc
           /\ df' = r.df
           /\ rain_agg' = r.rain_agg
           /\ gdf' = r.gdf
           /\ unmatched_json' = r.unmatched_json
           /\ missing_data_map' = r.missing_data_map
           /\ merged' = r.merged
           /\ merged_columns' = r.merged_columns
           /\ dist_col' = r.dist_col
           /\ log' = r.log
    /\ UNCHANGED <<rainfall_file, geojson_file, goa_file, artifacts, invoked,
                   value, color, category, geo_columns, found>>

\* merged_gdf is None: nothing more is done
Exit ==
    /\ pc = "returned_none"
    /\ pc' = "exited"
    /\ UNCHANGED <<rainfall_file, geojson_file, goa_file, df, rain_agg, gdf,
                   unmatched_json, missing_data_map, merged, merged_columns,
                   dist_col, log, artifacts, invoked, value, color, category,
                   geo_columns, found>>

\* create_static_map: savefig(OUTPUT_PNG), savefig(OUTPUT_SVG)
create_static_map ==
    /\ pc = "returned_merged"
    /\ invoked' = Append(invoked, "create_static_map")
    /\ artifacts' = artifacts \cup {OUTPUT_PNG, OUTPUT_SVG}
    /\ log' = log \o <<"Step 4: Generating Static Map (PNG)...", "Saved OUTPUT_PNG",
                       "Saved OUTPUT_SVG">>
    /\ pc' = "static_saved"
    /\ UNCHANGED <<rainfall_file, geojson_file, goa_file, df, rain_agg, gdf,
                   unmatched_json, missing_data_map, merged, merged_columns,
                   dist_col, value, color, category, geo_columns, found>>

\* the fields of the tooltip; rendering asserts that each is a column of the data
tooltip_fields == {dist_col, c_RAINFALL_DISPLAY, c_CATEGORY}

\* create_interactive_map: m.save(OUTPUT_HTML) renders the map first, and the
\* tooltip's render raises when one of its fields is not a column of the data
create_interactive_map ==
    /\ pc = "static_saved"
    /\ invoked' = Append(invoked, "create_interactive_map")
    /\ IF tooltip_fields \subseteq merged_columns
       THEN /\ artifacts' = artifacts \cup {OUTPUT_HTML}
            /\ log' = log \o <<"Step 5: Generating Interactive Map (HTML)...",
                               "Saved OUTPUT_HTML", "Done.">>
            /\ pc' = "done"
       ELSE /\ artifacts' = artifacts
            /\ log' = log \o <<"Step 5: Generating Interactive Map (HTML)...">>
            /\ pc' = "raised_in_create_interactive_map"
    /\ UNCHANGED <<rainfall_file, geojson_file, goa_file, df, rain_agg, gdf,
                   unmatched_json, missing_data_map, merged, merged_columns,
                   dist_col, value, color, category, geo_columns, found>>

(***************************************************************************)
(* The pure functions as steps: the classifier, the column discovery and   *)
(* the aggregation applied to an input.                                    *)
(***************************************************************************)
Classify ==
    /\ pc = "classify"
    /\ color' = get_color(value)
    /\ category' = get_category(value)
    /\ pc' = "classified"
    /\ UNCHANGED <<rainfall_file, geojson_file, goa_file, df, rain_agg, gdf,
                   unmatched_json, missing_data_map, merged, merged_columns,
                   dist_col, log, artifacts, invoked, value, geo_columns, found>>

FindDistrictCol ==
    /\ pc = "find"
    /\ found' = find_district_col(geo_columns)
    /\ pc' = "found"
    /\ UNCHANGED <<rainfall_file, geojson_file, goa_file, df, rain_agg, gdf,
                   unmatched_json, missing_data_map, merged, merged_columns,
                   dist_col, log, artifacts, invoked, value, color, category,
                   geo_columns>>

Aggregate ==
    /\ pc = "aggregate"
    /\ df' = rainfall_frame(rainfall_file.data)
    /\ rain_agg' = aggregate(rainfall_file.data)
    /\ pc' = "aggregated"
    /\ UNCHANGED <<rainfall_file, geojson_file, goa_file, gdf,
                   unmatched_json, missing_data_map, merged, merged_columns,
                   dist_col, log, artifacts, invoked, value, color, category,
                   geo_columns, found>>

(***************************************************************************)
(* Inputs.                                                                 *)
(***************************************************************************)
record(district, rf) == (c_DISTRICT :> district) @@ (c_RF :> rf)

\* the measurement sources of the full run
RainfallSources ==
    { [load |-> "error"],
      [load |-> "ok", data |-> <<>>],
      [load |-> "ok", data |-> <<(c_DISTRICT :> in_Mumbai)>>],
      [load |-> "ok", data |-> <<(c_RF :> rf_12_3)>>],
      [load |-> "ok", data |-> <<record(in_Mumbai, rf_12_3)>>],
      [load |-> "ok", data |-> <<record(in_Mumbai, rf_12_3),
                                 record(in_Mumbai_Suburban_pad, rf_70)>>],
      [load |-> "ok", data |-> <<record(in_Ahilyanagar_pad, rf_70)>>],
      [load |-> "ok", data |-> <<record(in_ahmadnagar, rf_NA),
                                 record(in_Ahilyanagar_pad, rf_70)>>],
      [load |-> "ok", data |-> <<record(in_Pune, rf_250), record(in_Mumbai, rf_NA)>>],
      [load |-> "ok", data |-> <<record(in_Goa, rf_115_5), record(in_South_Goa, rf_12_3),
                                 record(in_Goa, rf_250)>>] }

ids == <<id_1, id_2, id_3, id_4>>

\* a geometry source whose columns are laid out as `layout` ([name, dtype,
\* holds]) and whose features carry `labels` in the columns holding names
geometry(layout, labels) ==
    [load |-> "ok",
     columns |-> [j \in 1..Len(layout) |->
                    [name |-> layout[j].name, dtype |-> layout[j].dtype]],
     features |-> [i \in 1..Len(labels) |->
                    [j \in 1..Len(layout) |->
                        IF layout[j].holds = "names" THEN labels[i] ELSE ids[i]]]]

column(name, dtype, holds) == [name |-> name, dtype |-> dtype, holds |-> holds]

MainLayouts ==
    { <<column(c_dtname, "object", "names")>>,
      <<column(c_DISTRICT, "object", "names")>>,
      <<column(c_objectid, "int64", "ids"), column(c_Name, "object", "names")>>,
      <<column(c_objectid, "object", "ids"), column(c_dtname, "object", "names")>>,
      <<column(in_area, "object", "names")>> }

MainLabels == {in_Mumbai, s_MUMBAI_SUBURBAN, in_ahmadnagar, in_Ahilyanagar_pad, in_XYZ}

MainSources ==
    {[load |-> "error"]}
      \cup {geometry(l, ls) : l \in MainLayouts, ls \in SeqsOf(MainLabels, 1, MaxFeatures)}

GoaSources ==
    { [load |-> "absent"],
      [load |-> "error"],
      geometry(<<column(in_area, "object", "names")>>, <<in_North_Goa>>),
      geometry(<<column(c_NAME_2, "object", "names")>>, <<in_North_Goa, in_South_Goa>>) }

\* the inputs of the aggregation alone
AggregateLabels == {in_Mumbai, in_Mumbai_Suburban_pad, in_Ahilyanagar_pad, in_ahmadnagar}
AggregateFields == {rf_12_3, rf_70}
AggregateRecords ==
    {record(l, f) : l \in AggregateLabels, f \in AggregateFields}
      \cup {record(in_Mumbai, rf_NA)}
AggregateSources ==
    {[load |-> "ok", data |-> d] : d \in SeqsOf(AggregateRecords, 1, MaxRows)}

\* the inputs of the column discovery alone
DiscoveryColumns ==
    {[name |-> n, dtype |-> t] :
        n \in {c_dtname, in_DTNAME, c_objectid, c_Name, in_name_2, in_area},
        t \in {"object", "int64"}}

(***************************************************************************)
(* Specifications.                                                         *)
(***************************************************************************)
Idle ==
    /\ df = <<>> /\ rain_agg = <<>> /\ gdf = <<>>
    /\ unmatched_json = {} /\ missing_data_map = {}
    /\ merged = None /\ merged_columns = {} /\ dist_col = None
    /\ log = <<>> /\ artifacts = {} /\ invoked = <<>>
    /\ color = "" /\ category = "" /\ found = None

Init ==
    /\ pc = "start"
    /\ rainfall_file \in RainfallSources
    /\ geojson_file \in MainSources
    /\ goa_file \in GoaSources
    /\ value = 0 /\ geo_columns = <<>>
    /\ Idle

Next == ProcessData \/ Exit \/ create_static_map \/ create_interactive_map

Spec == Init /\ [][Next]_vars

InitClassify ==
    /\ pc = "classify"
    /\ value \in 0..MaxValue
    /\ rainfall_file = [load |-> "absent"]
    /\ geojson_file = [load |-> "absent"]
    /\ goa_file = [load |-> "absent"]
    /\ geo_columns = <<>>
    /\ Idle

SpecClassify == InitClassify /\ [][Classify]_vars

InitDiscovery ==
    /\ pc = "find"
    /\ geo_columns \in SeqsOf(DiscoveryColumns, 0, MaxCols)
    /\ rainfall_file = [load |-> "absent"]
    /\ geojson_file = [load |-> "absent"]
    /\ goa_file = [load |-> "absent"]
    /\ value = 0
    /\ Idle

SpecDiscovery == InitDiscovery /\ [][FindDistrictCol]_vars

InitAggregate ==
    /\ pc = "aggregate"
    /\ rainfall_file \in AggregateSources
    /\ geojson_file = [load |-> "absent"]
    /\ goa_file = [load |-> "absent"]
    /\ value = 0 /\ geo_columns = <<>>
    /\ Idle

SpecAggregate == InitAggregate /\ [][Aggregate]_vars

(***************************************************************************)
(* What the properties speak of.                                           *)
(***************************************************************************)
Returned == {"returned_merged", "static_saved", "done", "raised_in_create_interactive_map"}
Ended == {"exited", "done", "raised_in_process_data", "raised_in_create_interactive_map"}

\* the documented classification table
Buckets == {"NONE", "MODERATE", "HEAVY", "VERY_HEAVY", "EXTREME"}
InBucket(b, v) ==
    CASE b = "NONE"       -> v = 0
      [] b = "MODERATE"   -> 0 < v /\ v < 645
      [] b = "HEAVY"      -> 645 <= v /\ v <= 1155
      [] b = "VERY_HEAVY" -> 1155 < v /\ v <= 2044
      [] b = "EXTREME"    -> v > 2044
BucketLabel(b) ==
    CASE b = "NONE"       -> "No Rainfall"
      [] b = "MODERATE"   -> "Moderate Rainfall"
      [] b = "HEAVY"      -> "Heavy Rainfall"
      [] b = "VERY_HEAVY" -> "Very Heavy Rainfall"
      [] b = "EXTREME"    -> "Extremely Heavy Rainfall"
BucketColor(b) ==
    CASE b = "NONE"       -> "#D3D3D3"
      [] b = "MODERATE"   -> "#FFFFE0"
      [] b = "HEAVY"      -> "#FFA500"
      [] b = "VERY_HEAVY" -> "#FF0000"
      [] b = "EXTREME"    -> "#8B0000"

\* the documented alias table: <<alias, canonical name>>
AliasTable ==
    { <<s_AHILYANAGAR, s_AHMADNAGAR>>, <<s_DHARASHIV, s_OSMANABAD>>,
      <<s_RAIGAD, s_RAIGARH>>, <<s_SHOLAPUR, s_SOLAPUR>>, <<s_BEED, s_BID>>,
      <<s_CHHATRAPATI_SAMBHAJI_NAGAR, s_AURANGABAD>>,
      <<s_CHATRAPATI_SAMBHAJI_NAGAR, s_AURANGABAD>> }

\* the canonical key the documented normalisation gives a raw label
Canonical(raw) ==
    LET t == strip_upper(raw)
    IN  IF \E a \in AliasTable : a[1] = t
        THEN (CHOOSE a \in AliasTable : a[1] = t)[2]
        ELSE t

\* two raw labels the alias table declares to denote one district
SameDistrict(a, b) == Canonical(a) = Canonical(b)

\* a column that qualifies as the district column: a candidate name, whatever
\* its case, and textual values
Candidates == <<c_dtname, c_district, c_NAME_2, c_Dist_Name, c_Name, c_objectid, c_censuscode>>
Rank(name) ==
    CHOOSE p \in 1..Len(Candidates) :
        /\ str_lower(Candidates[p]) = str_lower(name)
        /\ \A q \in 1..(p - 1) : str_lower(Candidates[q]) # str_lower(name)
Qualifies(col) ==
    /\ \E p \in 1..Len(Candidates) : str_lower(Candidates[p]) = str_lower(col.name)
    /\ col.dtype = "object"

\* the inputs as the run needs them
MeasurementUsable ==
    /\ rainfall_file.load = "ok"
    /\ frame_columns(rainfall_file.data) = {c_DISTRICT, c_RF}
MainUsable ==
    /\ geojson_file.load = "ok"
    /\ \E j \in 1..Len(geojson_file.columns) : Qualifies(geojson_file.columns[j])
GoaUsable ==
    /\ goa_file.load = "ok"
    /\ \E j \in 1..Len(goa_file.columns) : Qualifies(goa_file.columns[j])
GeometryLength ==
    Len(geojson_file.features) + (IF GoaUsable THEN Len(goa_file.features) ELSE 0)

\* the number a rainfall field stands for, an unparseable one standing for 0
FieldTenths(field) == IF to_numeric(field) = NaN THEN 0 ELSE to_numeric(field)
Unparseable(field) == to_numeric(field) = NaN

\* the rows of the input that contribute to key k: those of the district, and
\* for MUMBAI SUBURBAN also those of MUMBAI
Contributors(data, k) ==
    {i \in 1..Len(data) :
        \/ Canonical(data[i][c_DISTRICT]) = k
        \/ k = s_MUMBAI_SUBURBAN /\ Canonical(data[i][c_DISTRICT]) = s_MUMBAI}
RECURSIVE SumOver(_, _)
SumOver(data, I) ==
    IF I = {} THEN 0
    ELSE LET i == CHOOSE j \in I : TRUE
         IN  FieldTenths(data[i][c_RF]) + SumOver(data, I \ {i})
ExpectedKeys(data) ==
    LET ks == {Canonical(data[i][c_DISTRICT]) : i \in 1..Len(data)}
    IN  ks \cup (IF s_MUMBAI \in ks THEN {s_MUMBAI_SUBURBAN} ELSE {})
AggKeys == {rain_agg[i].DISTRICT : i \in 1..Len(rain_agg)}
AggValue(k) == (CHOOSE e \in Range(rain_agg) : e.DISTRICT = k).RAINFALL_MM
RowOrders(n) == {p \in [1..n -> 1..n] : \A i, j \in 1..n : p[i] = p[j] => i = j}
Abs(x) == IF x < 0 THEN -x ELSE x

\* the key the code gives a geometry row: its label trimmed and upper-cased,
\* and NORTH GOA read as GOA in the supplementary source
GeometryKey(row) ==
    IF row.source = "GOA_FILE" /\ strip_upper(row.native) = s_NORTH_GOA
    THEN s_GOA
    ELSE strip_upper(row.native)

\* every order of the rows gives the aggregate of the state, which has one
\* entry for each expected key
OrderIndependentAndKeyUnique ==
    LET data == rainfall_file.data
    IN  /\ \A p \in RowOrders(Len(data)) :
              aggregate([i \in 1..Len(data) |-> data[p[i]]]) = rain_agg
        /\ AggKeys = ExpectedKeys(data)
        /\ Len(rain_agg) = Cardinality(AggKeys)

\* the input with every unparseable rainfall field replaced by "0"
Zeroed(rainfall) ==
    [rainfall EXCEPT !.data =
        [i \in 1..Len(rainfall.data) |->
            [rainfall.data[i] EXCEPT ![c_RF] = IF Unparseable(@) THEN rf_0 ELSE @]]]
HasUnparseable ==
    /\ MeasurementUsable
    /\ \E i \in 1..Len(rainfall_file.data) : Unparseable(rainfall_file.data[i][c_RF])

(***************************************************************************)
(* C1.  Every value from 0 up lies in exactly one bucket of the documented *)
(* table, and get_category and get_color return the label and the colour   *)
(* of that bucket (115.5 is Heavy).  Checked under SpecClassify.           *)
(***************************************************************************)
C1_ClassifierFollowsTable ==
    pc = "classified" =>
        /\ Cardinality({b \in Buckets : InBucket(b, value)}) = 1
        /\ \A b \in Buckets :
              InBucket(b, value) => category = BucketLabel(b) /\ color = BucketColor(b)

C1_Witness == pc = "classified" /\ value = 1155 /\ category = "Heavy Rainfall" /\ color = "#FFA500"

(***************************************************************************)
(* C2.  The merged frame process_data returns has exactly one row per      *)
(* geometry feature (the primary features, then the supplementary ones     *)
(* when they are usable), in order: none dropped, none duplicated.         *)
(***************************************************************************)
C2_JoinTotalOverGeometry ==
    pc \in Returned =>
        /\ Len(merged) = GeometryLength
        /\ \A i \in 1..Len(geojson_file.features) :
              merged[i].source = "GEOJSON_FILE" /\ merged[i].attrs = geojson_file.features[i]
        /\ GoaUsable =>
              \A i \in 1..Len(goa_file.features) :
                 LET m == merged[Len(geojson_file.features) + i]
                 IN  m.source = "GOA_FILE" /\ m.attrs = goa_file.features[i]

C2_Witness ==
    /\ pc = "done"
    /\ GoaUsable
    /\ Len(merged) = 4
    /\ merged[1].DISTRICT_NORM = merged[2].DISTRICT_NORM
    /\ merged[1].RAINFALL_MM > 0

C4_SuburbanEqualsMumbai ==
    (rain_agg # <<>> /\ s_MUMBAI \in AggKeys) =>
        /\ s_MUMBAI_SUBURBAN \in AggKeys
        /\ AggValue(s_MUMBAI_SUBURBAN) = AggValue(s_MUMBAI)
        /\ pc \in Returned =>
              \A a, b \in 1..Len(merged) :
                 (merged[a].DISTRICT_NORM = s_MUMBAI /\ merged[b].DISTRICT_NORM = s_MUMBAI_SUBURBAN)
                    => /\ merged[a].RAINFALL_MM = merged[b].RAINFALL_MM
                       /\ merged[a].CATEGORY = merged[b].CATEGORY

(***************************************************************************)
(* C5.  A geometry feature whose key has no aggregated measurement comes   *)
(* out with value 0, "No Rainfall" and the light grey, and its key is in   *)
(* the reported set of unmatched geometry; the two reported sets are the   *)
(* two differences of the key sets; every other value of the output is the *)
(* aggregate of the feature's own key.                                     *)
(***************************************************************************)
C5_UnmatchedGeometryDefaults ==
    pc \in Returned =>
        LET GeoKeys == {gdf[i].DISTRICT_NORM : i \in 1..Len(gdf)}
        IN  /\ \A i \in 1..Len(gdf) :
                  gdf[i].DISTRICT_NORM \notin AggKeys =>
                     /\ i <= Len(merged)
                     /\ merged[i].attrs = gdf[i].attrs
                     /\ merged[i].DISTRICT_NORM = gdf[i].DISTRICT_NORM
                     /\ merged[i].RAINFALL_MM = 0
                     /\ merged[i].CATEGORY = "No Rainfall"
                     /\ merged[i].COLOR = "#D3D3D3"
                     /\ gdf[i].DISTRICT_NORM \in missing_data_map
            /\ unmatched_json = AggKeys \ GeoKeys
            /\ missing_data_map = GeoKeys \ AggKeys
            /\ \A k \in 1..Len(merged) :
                  \/ merged[k].DISTRICT_NORM \notin AggKeys /\ merged[k].RAINFALL_MM = 0
                  \/ /\ merged[k].DISTRICT_NORM \in AggKeys
                     /\ merged[k].RAINFALL_MM = AggValue(merged[k].DISTRICT_NORM)

C5_Witness ==
    /\ pc = "done"
    /\ \E i \in 1..Len(gdf) :
          /\ gdf[i].DISTRICT_NORM = in_XYZ
          /\ merged[i].RAINFALL_MM = 0
          /\ merged[i].CATEGORY = "No Rainfall"
          /\ in_XYZ \in missing_data_map
    /\ unmatched_json # {}
    /\ \E k \in 1..Len(merged) : merged[k].RAINFALL_MM > 0

C7_AllArtifactsOrNone ==
    pc \in Ended => artifacts \in {{}, {OUTPUT_PNG, OUTPUT_SVG, OUTPUT_HTML}}

(***************************************************************************)
(* C8.  When the measurement and the primary geometry are usable and the   *)
(* supplementary source is absent, fails to load or has no district        *)
(* column, process_data returns a merged frame of exactly the primary      *)
(* features, and the run then calls both renderers.                        *)
(***************************************************************************)
C8_RunsWithoutSupplementary ==
    (MeasurementUsable /\ MainUsable /\ ~GoaUsable /\ pc # "start") =>
        /\ pc \in Returned
        /\ Len(merged) = Len(geojson_file.features)
        /\ \A i \in 1..Len(merged) :
              merged[i].source = "GEOJSON_FILE" /\ merged[i].attrs = geojson_file.features[i]
        /\ pc \in Ended => invoked = <<"create_static_map", "create_interactive_map">>
        /\ pc = "static_saved" => invoked = <<"create_static_map">>
        /\ pc = "returned_merged" => invoked = <<>>

C8_Witness ==
    /\ pc = "done"
    /\ goa_file.load = "ok"
    /\ ~GoaUsable
    /\ Len(merged) = Len(geojson_file.features)
    /\ invoked = <<"create_static_map", "create_interactive_map">>

(***************************************************************************)
(* C9 as claimed.  Every permutation of the rows gives the same aggregate; *)
(* it has one entry per key, and the value of a key is the mean of the     *)
(* rows that contribute to it.  Checked under SpecAggregate.               *)
(***************************************************************************)
C9_ValueIsTheMean ==
    pc = "aggregated" =>
        /\ OrderIndependentAndKeyUnique
        /\ \A k \in AggKeys :
              LET I == Contributors(rainfall_file.data, k)
              IN  Cardinality(I) * AggValue(k) = SumOver(rainfall_file.data, I)

(***************************************************************************)
(* C9 as amended.  The same, the value of a key being the mean of its rows *)
(* rounded to one decimal: it differs from the mean by at most half a      *)
(* tenth.                                                                  *)
(***************************************************************************)
C9_ValueIsTheRoundedMean ==
    pc = "aggregated" =>
        /\ OrderIndependentAndKeyUnique
        /\ \A k \in AggKeys :
              LET I == Contributors(rainfall_file.data, k)
              IN  2 * Abs(Cardinality(I) * AggValue(k) - SumOver(rainfall_file.data, I))
                     <= Cardinality(I)

C9_Witness ==
    /\ pc = "aggregated"
    /\ Len(rainfall_file.data) = 3
    /\ rainfall_file.data[1] = record(in_Ahilyanagar_pad, rf_70)
    /\ rainfall_file.data[2] = record(in_Mumbai, rf_12_3)
    /\ rainfall_file.data[3] = record(in_ahmadnagar, rf_12_3)
    /\ rain_agg = << [DISTRICT |-> s_AHMADNAGAR, RAINFALL_MM |-> 412],
                     [DISTRICT |-> s_MUMBAI, RAINFALL_MM |-> 123],
                     [DISTRICT |-> s_MUMBAI_SUBURBAN, RAINFALL_MM |-> 123] >>

(***************************************************************************)
(* C10 as claimed.  find_district_col returns no column exactly when none  *)
(* qualifies, and otherwise the qualifying column whose candidate comes    *)
(* first in the priority list, whatever the order of the columns.          *)
(* Checked under SpecDiscovery.                                            *)
(***************************************************************************)
C10_EarliestCandidateWins ==
    pc = "found" =>
        LET Q == {j \in 1..Len(geo_columns) : Qualifies(geo_columns[j])}
        IN  /\ found = None <=> Q = {}
            /\ Q # {} =>
                  /\ \E j \in Q : geo_columns[j].name = found
                  /\ \A j \in Q : Rank(found) <= Rank(geo_columns[j].name)

(***************************************************************************)
(* C10 as amended.  find_district_col returns no column exactly when none  *)
(* qualifies, and otherwise the first qualifying column in the order of    *)
(* the source's columns, whatever its candidate's place in the list.       *)
(***************************************************************************)
C10_FirstQualifyingColumnWins ==
    pc = "found" =>
        LET Q == {j \in 1..Len(geo_columns) : Qualifies(geo_columns[j])}
        IN  /\ found = None <=> Q = {}
            /\ Q # {} =>
                  found = geo_columns[CHOOSE j \in Q : \A k \in Q : j <= k].name

C10_Witness ==
    /\ pc = "found"
    /\ Len(geo_columns) = 2
    /\ geo_columns[1] = [name |-> c_objectid, dtype |-> "object"]
    /\ geo_columns[2] = [name |-> c_dtname, dtype |-> "object"]
    /\ found = c_objectid
====
